---- MODULE Spec2Model ----
(***************************************************************************)
(* SoundCloudDownloader (soundclouddownloader/main.py): playlist metadata  *)
(* resolution, the per-track download task (probe, fetch, file            *)
(* resolution), and the playlist orchestration over a bounded worker pool *)
(* with a randomized throttle delay and optional zip archival.            *)
(*                                                                         *)
(* Strings (titles, file names) are sequences of one-character tokens;    *)
(* the extensions "mp3" and "part" are single tokens, and no title uses   *)
(* their letters, so prefix tests on token sequences agree with prefix    *)
(* tests on the strings.  None is the token sequence <<"None">>, the      *)
(* empty string is <<>>.                                                   *)
(***************************************************************************)
EXTENDS Integers, Sequences, FiniteSets, TLC

\* ------------------------------------------------------------------ bounds
MaxTracks == 2      \* raw entries of the playlist in Spec
MaxEntries == 2     \* raw entries of the playlist in SpecInfo

\* ----------------------------------------------------------------- values
None == <<"None">>
EmptyStr == <<>>
NoFile == <<>>                 \* download_track's "return None"
Raised == <<"<exception>">>    \* a future that holds an exception

Falsy(v) == v = None \/ v = EmptyStr

\* x or y
Or(x, y) == IF Falsy(x) THEN y ELSE x

Max(S) == CHOOSE m \in S : \A x \in S : x <= m
Min(S) == CHOOSE m \in S : \A x \in S : m <= x
Range(s) == {s[i] : i \in 1..Len(s)}

RECURSIVE SelectWhere(_, _)
\* the subsequence of s whose positions are in keep (a list comprehension)
SelectWhere(s, keep) ==
    IF s = <<>> THEN <<>>
    ELSE LET r == SelectWhere(SubSeq(s, 1, Len(s) - 1), keep)
         IN IF Len(s) \in keep THEN Append(r, s[Len(s)]) ELSE r

\* ------------------------------------------------------ pathlib operations
RFindDot(name) ==
    LET D == {i \in 1..Len(name) : name[i] = "."}
    IN IF D = {} THEN 0 ELSE Max(D)

\* PurePath.suffix is non-empty iff the last dot is neither first nor last
HasSuffix(name) == 1 < RFindDot(name) /\ RFindDot(name) < Len(name)

\* PurePath.stem
Stem(name) == IF HasSuffix(name) THEN SubSeq(name, 1, RFindDot(name) - 1) ELSE name

\* PurePath.with_suffix("." + ext): the old suffix, if any, is replaced
WithSuffix(name, ext) == Stem(name) \o <<".", ext>>

\* str.startswith
StartsWith(s, p) == Len(p) <= Len(s) /\ SubSeq(s, 1, Len(p)) = p

\* ---------------------------------------------------- filename sanitizing
UnsafeChars == {"/"}
max_length == 4

\* utils.clean_filename: unsafe characters are stripped, the length capped
clean_filename(s) ==
    LET kept == SelectWhere(s, {i \in 1..Len(s) : s[i] \notin UnsafeChars})
    IN SubSeq(kept, 1, Min({Len(kept), max_length}))

\* ------------------------------------------------------------ playlist info
\* a raw entry of playlist_info["entries"]: a dict, or a null placeholder
FieldVals == {None, EmptyStr, <<"x">>}
NullEntry == [is_dict |-> FALSE, webpage_url |-> None, url |-> None,
              title |-> None, id |-> None]
RawEntries ==
    {NullEntry} \cup [is_dict : {TRUE}, webpage_url : FieldVals, url : FieldVals,
                      title : FieldVals, id : FieldVals]

\* the id is not required
WellFormedNoId(e) ==
    ~ (Falsy(Or(e.webpage_url, e.url)) \/ Falsy(e.title))

\* lines 121-127: the entry has a URL, a title and an id
WellFormed(e) ==
    ~ (Falsy(Or(e.webpage_url, e.url)) \/ Falsy(e.title) \/ Falsy(e.id))

MakeTrack(e) == [id |-> e.id, title |-> e.title, url |-> Or(e.webpage_url, e.url)]

\* lines 116-128
TracksOf(raw) ==
    LET entries == SelectWhere(raw, {i \in 1..Len(raw) : raw[i].is_dict})
        good == SelectWhere(entries, {i \in 1..Len(entries) : WellFormed(entries[i])})
    IN [i \in 1..Len(good) |-> MakeTrack(good[i])]

\* ------------------------------------------------------------------ inputs
\* track titles of the playlists of Spec: "a/" and "a.b"
Titles == {<<"a", "/">>, <<"a", ".", "b">>}

\* values of max_workers
PoolWidths == {1, 2}

\* the id of the k-th entry: k tokens, so that entries have distinct ids
IdOf(k) == [j \in 1..k |-> "i"]

Entry(k, title) ==
    [is_dict |-> TRUE, webpage_url |-> <<"u">> \o IdOf(k), url |-> None,
     title |-> title, id |-> IdOf(k)]

\* playlists of MaxTracks raw entries: null placeholders, then tracks
MainPlaylists ==
    {raw \in [1..MaxTracks -> {NullEntry} \cup {Entry(k, t) : k \in 1..MaxTracks, t \in Titles}] :
        /\ \A k \in 1..MaxTracks : raw[k] = NullEntry \/ raw[k].id = IdOf(k)
        /\ \A k \in 2..MaxTracks : raw[k] = NullEntry => raw[k - 1] = NullEntry}

\* playlists of up to MaxEntries arbitrary raw entries
InfoPlaylists == UNION {[1..n -> RawEntries] : n \in 0..MaxEntries}

\* ------------------------------------------------------------------- state
VARIABLES
    raw_entries,       \* playlist_info["entries"] as the extractor returns it
    should_zip,        \* argument of download_playlist
    max_workers,       \* argument of download_playlist
    ydl_opts,          \* self.ydl_opts: its "outtmpl" (the other options never vary)
    playlist_info,     \* outcome of the extractor call of line 113
    pc,                \* position of download_playlist
    exc,               \* the exception that left download_playlist, or "none"
    retval,            \* the value download_playlist returned, or "unset"
    tracks,            \* playlist.tracks
    task,              \* per track: position of its future / download_track call
    clean_name,        \* per track: clean_name of its download_track call
    result,            \* per track: the value its future holds
    worker,            \* per pool thread: the track it runs, 0 when idle
    freed_by,          \* per pool thread: the track it completed last, 0 if none
    collected,         \* the tracks as_completed has yielded, in order
    downloaded_files,  \* the list downloaded_files
    sleeps,            \* number of throttle delays that have elapsed
    disk,              \* files of playlist_dir: name -> [by, partial]
    dir_exists,        \* playlist_dir exists
    zip                \* the archive: whether it was created, and its entries

vars == <<raw_entries, should_zip, max_workers, ydl_opts, playlist_info, pc, exc, retval, tracks, task,
          clean_name, result, worker, freed_by, collected, downloaded_files,
          sleeps, disk, dir_exists, zip>>

inputs == <<raw_entries, should_zip, max_workers>>
taskvars == <<task, clean_name, result, worker, freed_by>>
loopvars == <<collected, downloaded_files, sleeps>>
outvars == <<exc, retval, zip>>
fsvars == <<disk, dir_exists>>

\* line 36: "outtmpl": "%(title)s"
TitleTemplate == <<"%(title)s">>

\* lines 27-43: the options __init__ builds
InitialOpts == [outtmpl |-> TitleTemplate]

NoZip == [created |-> FALSE, entries |-> <<>>]
EmptyDisk == [n \in {} |-> [by |-> 0, partial |-> FALSE]]

N == Len(tracks)
TrackIds == 1..N
\* the pool runs one thread more than asked for
WorkersOffByOne == 1..(max_workers + 1)

\* the threads of ThreadPoolExecutor(max_workers=max_workers)
Workers == 1..max_workers

\* the positions of a download_track call that has returned, by return line
ReturnSites == {"ret63", "ret78", "ret97", "ret100"}
Done(t) == task[t] \in ReturnSites

InitRest ==
    /\ ydl_opts = InitialOpts
    /\ playlist_info = "pending"
    /\ pc = "start"
    /\ exc = "none"
    /\ retval = "unset"
    /\ tracks = <<>>
    /\ task = <<>>
    /\ clean_name = <<>>
    /\ result = <<>>
    /\ worker = [w \in Workers |-> 0]
    /\ freed_by = [w \in Workers |-> 0]
    /\ collected = <<>>
    /\ downloaded_files = <<>>
    /\ sleeps = 0
    /\ disk = EmptyDisk
    /\ dir_exists = FALSE
    /\ zip = NoZip

Init ==
    /\ raw_entries \in MainPlaylists
    /\ should_zip \in BOOLEAN
    /\ max_workers \in PoolWidths
    /\ InitRest

\* -------------------------------------------------------- get_playlist_info
\* lines 112-134 and 165-167: the extractor returns, the tracks are built
\* and the playlist subdirectory is created
GetPlaylistInfo ==
    /\ pc = "start"
    /\ playlist_info' = "ok"
    /\ tracks' = TracksOf(raw_entries)
    /\ task' = [t \in 1..Len(tracks') |-> "new"]
    /\ clean_name' = [t \in 1..Len(tracks') |-> NoFile]
    /\ result' = [t \in 1..Len(tracks') |-> NoFile]
    /\ dir_exists' = TRUE
    /\ pc' = IF tracks' = <<>> THEN "wait" ELSE "submit"
    /\ UNCHANGED <<inputs, ydl_opts, worker, freed_by, loopvars, outvars, disk>>

\* the extraction failure is caught and reported as the None result
GetPlaylistInfoFailsCaught ==
    /\ pc = "start"
    /\ playlist_info' = "error"
    /\ pc' = "returned"
    /\ retval' = "None"
    /\ UNCHANGED <<inputs, ydl_opts, tracks, taskvars, loopvars, exc, zip, fsvars>>

\* line 113 raises: neither get_playlist_info nor download_playlist (line
\* 164) catches it
GetPlaylistInfoFails ==
    /\ pc = "start"
    /\ playlist_info' = "error"
    /\ pc' = "raised"
    /\ exc' = "ExtractorError"
    /\ UNCHANGED <<inputs, ydl_opts, tracks, taskvars, loopvars, retval, zip, fsvars>>

\* ------------------------------------------------------------- file system
WriteFile(d, name, t, partial) ==
    [n \in DOMAIN d \cup {name} |->
        IF n = name THEN [by |-> t, partial |-> partial] ELSE d[n]]

RemoveFile(d, name) == [n \in DOMAIN d \ {name} |-> d[n]]

\* ------------------------------------------------------------ the extractor
\* ydl.prepare_filename(info) under the options' "outtmpl": the title under
\* "%(title)s" (line 36), the template itself when it holds no field
PrepareFilename(opts, track) ==
    IF opts.outtmpl = TitleTemplate THEN track.title ELSE opts.outtmpl

\* the output template is set on self.ydl_opts itself, not on a copy
SetOutputTemplateShared(opts, path) == [opts EXCEPT !.outtmpl = path]

\* lines 69-70: what self.ydl_opts is after the task has set "outtmpl" on
\* its own copy dict(self.ydl_opts)
SetOutputTemplate(opts, path) == opts

\* where ydl.download may leave its output for the template path p: the
\* transcoded file with the suffix replaced, the file as-is, the transcoded
\* file with the extension appended, or (NoFile) nowhere: "ignoreerrors"
\* (line 40) makes a failed download return normally
FetchOutputs(p) == {WithSuffix(p, "mp3"), p, p \o <<".", "mp3">>, NoFile}

PartialName(p) == p \o <<".", "part">>

\* ---------------------------------------------------- ThreadPoolExecutor
Queued == {t \in TrackIds : task[t] = "queued"}
Running == {t \in TrackIds : task[t] \in {"probe", "fetch", "resolve"}}
WorkerOf(t) == CHOOSE w \in Workers : worker[w] = t

\* a pool thread takes the next work item of the FIFO queue; the threads are
\* interchangeable, so the idle thread of least index stands for any of them
StartTask(w) ==
    /\ worker[w] = 0
    /\ \A v \in 1..(w - 1) : worker[v] # 0
    /\ Queued # {}
    /\ LET t == Min(Queued) IN
        /\ task' = [task EXCEPT ![t] = "probe"]
        /\ worker' = [worker EXCEPT ![w] = t]
    /\ UNCHANGED <<inputs, ydl_opts, playlist_info, pc, tracks, clean_name, result, freed_by, loopvars,
                   outvars, fsvars>>

\* the call of download_track returns r at a return line: the future is
\* done and the thread is free again
Complete(t, r, site) ==
    /\ task' = [task EXCEPT ![t] = site]
    /\ result' = [result EXCEPT ![t] = r]
    /\ worker' = [worker EXCEPT ![WorkerOf(t)] = 0]
    /\ freed_by' = [freed_by EXCEPT ![WorkerOf(t)] = t]

\* ------------------------------------------------------------ download_track
\* the probe's exception is not caught and ends up in the future
ProbeFailResultUncaught == Raised

\* what the task returns when the probe raises (lines 61-63)
ProbeFailResult == NoFile

\* what the task returns when the fetch raises (lines 76-78)
FetchFailResult == NoFile

\* lines 57-60 and 65-70: the probe returns; the task computes its output
\* path and its own options
ProbeOk(t) ==
    /\ task[t] = "probe"
    /\ task' = [task EXCEPT ![t] = "fetch"]
    /\ clean_name' = [clean_name EXCEPT
                        ![t] = clean_filename(PrepareFilename(ydl_opts, tracks[t]))]
    /\ ydl_opts' = SetOutputTemplate(ydl_opts, clean_name'[t])
    /\ UNCHANGED <<inputs, playlist_info, pc, tracks, result, worker, freed_by, loopvars,
                   outvars, fsvars>>

\* the handler of the probe logs but does not return: the task goes on to
\* the fetch
ProbeFailsFallsThrough(t) ==
    /\ task[t] = "probe"
    /\ task' = [task EXCEPT ![t] = "fetch"]
    /\ UNCHANGED <<inputs, ydl_opts, playlist_info, pc, tracks, clean_name, result, worker,
                   freed_by, loopvars, outvars, fsvars>>

\* lines 61-63: the probe raises
ProbeFails(t) ==
    /\ task[t] = "probe"
    /\ Complete(t, ProbeFailResult, "ret63")
    /\ UNCHANGED <<inputs, ydl_opts, playlist_info, pc, tracks, clean_name, loopvars, outvars, fsvars>>

\* lines 69-75: ydl.download returns
FetchOk(t) ==
    /\ task[t] = "fetch"
    /\ \E out \in FetchOutputs(clean_name[t]) :
        disk' = IF out = NoFile THEN disk ELSE WriteFile(disk, out, t, FALSE)
    /\ task' = [task EXCEPT ![t] = "resolve"]
    /\ UNCHANGED <<inputs, ydl_opts, playlist_info, pc, tracks, clean_name, result, worker, freed_by,
                   loopvars, outvars, dir_exists>>

\* lines 76-78: ydl.download raises, with or without a partial file left
FetchFails(t) ==
    /\ task[t] = "fetch"
    /\ \E partial \in BOOLEAN :
        disk' = IF partial THEN WriteFile(disk, PartialName(clean_name[t]), t, TRUE)
                ELSE disk
    /\ Complete(t, FetchFailResult, "ret78")
    /\ UNCHANGED <<inputs, ydl_opts, playlist_info, pc, tracks, clean_name, loopvars, outvars, dir_exists>>

\* line 91: the directory entries whose stem starts with clean_name
SimilarFiles(d, p) == {f \in DOMAIN d : StartsWith(Stem(f), p)}

\* the path as-is is preferred to the path with the output extension
ResolveCandidatesAsIsFirst(d, p) ==
    IF p \in DOMAIN d THEN {p}
    ELSE IF WithSuffix(p, "mp3") \in DOMAIN d THEN {WithSuffix(p, "mp3")}
    ELSE IF SimilarFiles(d, p) # {} THEN SimilarFiles(d, p)
    ELSE {NoFile}

\* lines 81-97: the values filepath can take (iterdir's order is arbitrary)
ResolveCandidates(d, p) ==
    IF WithSuffix(p, "mp3") \in DOMAIN d THEN {WithSuffix(p, "mp3")}
    ELSE IF p \in DOMAIN d THEN {p}
    ELSE IF SimilarFiles(d, p) # {} THEN SimilarFiles(d, p)
    ELSE {NoFile}

\* lines 80-100, after the settle delay
ResolveFile(t) ==
    /\ task[t] = "resolve"
    /\ \E f \in ResolveCandidates(disk, clean_name[t]) :
        Complete(t, f, IF f = NoFile THEN "ret97" ELSE "ret100")
    /\ UNCHANGED <<inputs, ydl_opts, playlist_info, pc, tracks, clean_name, loopvars, outvars, fsvars>>

\* ---------------------------------------------------------------- archival
\* utils.create_zip: one archive entry per listed file, named relative to
\* playlist_dir
create_zip(files, d) ==
    [created |-> TRUE,
     entries |-> [i \in 1..Len(files) |-> [arcname |-> files[i], by |-> d[files[i]].by]]]

RECURSIVE UnlinkAll(_, _)
\* lines 188-189: file.unlink() raises FileNotFoundError on a missing file
UnlinkAll(files, d) ==
    IF files = <<>> THEN [disk |-> d, ok |-> TRUE]
    ELSE IF Head(files) \notin DOMAIN d THEN [disk |-> d, ok |-> FALSE]
    ELSE UnlinkAll(Tail(files), RemoveFile(d, Head(files)))

\* --------------------------------------------------------- download_playlist
\* lines 171-174: one executor.submit per track, in playlist order
Submit ==
    /\ pc = "submit"
    /\ LET t == Min({u \in TrackIds : task[u] = "new"}) IN
        /\ task' = [task EXCEPT ![t] = "queued"]
        /\ pc' = IF t = N THEN "wait" ELSE "submit"
    /\ UNCHANGED <<inputs, ydl_opts, playlist_info, tracks, clean_name, result, worker, freed_by,
                   loopvars, outvars, fsvars>>

\* the result is appended whether or not it is a file
CollectedAlways(files, filepath) == Append(files, filepath)

\* line 178-179
Collected(files, filepath) ==
    IF filepath # NoFile THEN Append(files, filepath) ELSE files

\* the throttle delay is taken only after a task that returned a file
CollectDelayOnSuccess(t) ==
    /\ pc = "wait"
    /\ Done(t)
    /\ t \notin Range(collected)
    /\ collected' = Append(collected, t)
    /\ IF result[t] = Raised
       THEN /\ pc' = "raised"
            /\ exc' = "TrackError"
            /\ UNCHANGED downloaded_files
       ELSE /\ downloaded_files' = Collected(downloaded_files, result[t])
            /\ pc' = IF result[t] # NoFile THEN "sleep" ELSE "wait"
            /\ exc' = exc
    /\ UNCHANGED <<inputs, ydl_opts, playlist_info, tracks, taskvars, sleeps, retval, zip, fsvars>>

\* lines 175-182: as_completed yields a finished future, its result is
\* collected and the throttle delay begins (its length, drawn in line 181,
\* has no effect on the state).  future.result() re-raises what the task
\* raised
Collect(t) ==
    /\ pc = "wait"
    /\ Done(t)
    /\ t \notin Range(collected)
    /\ collected' = Append(collected, t)
    /\ IF result[t] = Raised
       THEN /\ pc' = "raised"
            /\ exc' = "TrackError"
            /\ UNCHANGED downloaded_files
       ELSE /\ downloaded_files' = Collected(downloaded_files, result[t])
            /\ pc' = "sleep"
            /\ exc' = exc
    /\ UNCHANGED <<inputs, ydl_opts, playlist_info, tracks, taskvars, sleeps, retval, zip, fsvars>>

\* line 182 returns
Wake ==
    /\ pc = "sleep"
    /\ pc' = "wait"
    /\ sleeps' = sleeps + 1
    /\ UNCHANGED <<inputs, ydl_opts, playlist_info, tracks, taskvars, collected, downloaded_files,
                   outvars, fsvars>>

\* the loop ends once every future that is done has been collected, without
\* waiting for the futures still running
LoopDoneEarly ==
    /\ pc = "wait"
    /\ \A t \in TrackIds : Done(t) => t \in Range(collected)

\* the loop of line 175 is over and the pool is shut down
LoopDone == pc = "wait" /\ Len(collected) = N

\* should_zip is tested before the list: an empty archive is made
ReturnNoneZipFirst ==
    /\ LoopDone
    /\ downloaded_files = <<>>
    /\ pc' = "returned"
    /\ IF should_zip
       THEN /\ zip' = create_zip(downloaded_files, disk)
            /\ retval' = "zip_filename"
       ELSE /\ zip' = zip
            /\ retval' = "None"
    /\ UNCHANGED <<inputs, ydl_opts, playlist_info, tracks, taskvars, loopvars, exc, fsvars>>

\* lines 194-196
ReturnNone ==
    /\ LoopDone
    /\ downloaded_files = <<>>
    /\ pc' = "returned"
    /\ retval' = "None"
    /\ UNCHANGED <<inputs, ydl_opts, playlist_info, tracks, taskvars, loopvars, exc, zip, fsvars>>

\* the originals are deleted whether or not an archive was asked for
ReturnDirUnlinks ==
    /\ LoopDone
    /\ downloaded_files # <<>>
    /\ ~ should_zip
    /\ disk' = UnlinkAll(downloaded_files, disk).disk
    /\ pc' = "returned"
    /\ retval' = "playlist_dir"
    /\ UNCHANGED <<inputs, ydl_opts, playlist_info, tracks, taskvars, loopvars, exc, zip, dir_exists>>

\* lines 192-193
ReturnDir ==
    /\ LoopDone
    /\ downloaded_files # <<>>
    /\ ~ should_zip
    /\ pc' = "returned"
    /\ retval' = "playlist_dir"
    /\ UNCHANGED <<inputs, ydl_opts, playlist_info, tracks, taskvars, loopvars, exc, zip, fsvars>>

\* the originals are deleted before the archive is written
ArchiveZipFailsAfterUnlink ==
    /\ LoopDone
    /\ downloaded_files # <<>>
    /\ should_zip
    /\ disk' = UnlinkAll(downloaded_files, disk).disk
    /\ pc' = "raised"
    /\ exc' = "ZipError"
    /\ UNCHANGED <<inputs, ydl_opts, playlist_info, tracks, taskvars, loopvars, retval, zip,
                   dir_exists>>

\* line 187 raises
ArchiveZipFails ==
    /\ LoopDone
    /\ downloaded_files # <<>>
    /\ should_zip
    /\ pc' = "raised"
    /\ exc' = "ZipError"
    /\ UNCHANGED <<inputs, ydl_opts, playlist_info, tracks, taskvars, loopvars, retval, zip, fsvars>>

\* lines 186-189: the archive is written, then an unlink raises
ArchiveUnlinkFails ==
    /\ LoopDone
    /\ downloaded_files # <<>>
    /\ should_zip
    /\ ~ UnlinkAll(downloaded_files, disk).ok
    /\ zip' = create_zip(downloaded_files, disk)
    /\ disk' = UnlinkAll(downloaded_files, disk).disk
    /\ pc' = "raised"
    /\ exc' = "FileNotFoundError"
    /\ UNCHANGED <<inputs, ydl_opts, playlist_info, tracks, taskvars, loopvars, retval, dir_exists>>

\* lines 186-191: archive, delete the originals, remove the directory
Archive ==
    /\ LoopDone
    /\ downloaded_files # <<>>
    /\ should_zip
    /\ UnlinkAll(downloaded_files, disk).ok
    /\ zip' = create_zip(downloaded_files, disk)
    /\ disk' = EmptyDisk
    /\ dir_exists' = FALSE
    /\ pc' = "returned"
    /\ retval' = "zip_filename"
    /\ UNCHANGED <<inputs, ydl_opts, playlist_info, tracks, taskvars, loopvars, exc>>

Next ==
    \/ GetPlaylistInfo
    \/ GetPlaylistInfoFails
    \/ Submit
    \/ \E w \in Workers : StartTask(w)
    \/ \E t \in TrackIds : ProbeOk(t)
    \/ \E t \in TrackIds : ProbeFails(t)
    \/ \E t \in TrackIds : FetchOk(t)
    \/ \E t \in TrackIds : FetchFails(t)
    \/ \E t \in TrackIds : ResolveFile(t)
    \/ \E t \in TrackIds : Collect(t)
    \/ Wake
    \/ ReturnNone
    \/ ReturnDir
    \/ ArchiveZipFails
    \/ ArchiveUnlinkFails
    \/ Archive

Spec == Init /\ [][Next]_vars

\* get_playlist_info alone, on arbitrary raw entries
InitInfo ==
    /\ raw_entries \in InfoPlaylists
    /\ should_zip = FALSE
    /\ max_workers = 1
    /\ InitRest

NextInfo == GetPlaylistInfo \/ GetPlaylistInfoFails

SpecInfo == InitInfo /\ [][NextInfo]_vars

\* No call of the extractor has a timeout (lines 112-113, 57-60, 73-75): a
\* call that never returns leaves its caller where it is for ever.  The
\* states "info_hung", "probe_hung" and "fetch_hung" stand for such a call.
GetPlaylistInfoHangs ==
    /\ pc = "start"
    /\ pc' = "info_hung"
    /\ UNCHANGED <<inputs, ydl_opts, playlist_info, tracks, taskvars, loopvars, outvars, fsvars>>

ProbeHangs(t) ==
    /\ task[t] = "probe"
    /\ task' = [task EXCEPT ![t] = "probe_hung"]
    /\ UNCHANGED <<inputs, ydl_opts, playlist_info, pc, tracks, clean_name, result, worker,
                   freed_by, loopvars, outvars, fsvars>>

FetchHangs(t) ==
    /\ task[t] = "fetch"
    /\ task' = [task EXCEPT ![t] = "fetch_hung"]
    /\ UNCHANGED <<inputs, ydl_opts, playlist_info, pc, tracks, clean_name, result, worker,
                   freed_by, loopvars, outvars, fsvars>>

Hang ==
    \/ GetPlaylistInfoHangs
    \/ \E t \in TrackIds : ProbeHangs(t)
    \/ \E t \in TrackIds : FetchHangs(t)

NextHang == Next \/ Hang

\* file names play no part in termination: the tracks here share one title
HangPlaylists ==
    {raw \in MainPlaylists :
        \A k \in 1..MaxTracks : raw[k] = NullEntry \/ raw[k].title = <<"a", "/">>}

InitHang ==
    /\ raw_entries \in HangPlaylists
    /\ should_zip \in BOOLEAN
    /\ max_workers \in PoolWidths
    /\ InitRest

\* download_playlist with extractor calls that may hang.  The main thread and
\* the pool threads are operating-system threads: whichever step of the
\* program is possible is eventually taken.  No fairness is put on Hang.
SpecHang == InitHang /\ [][NextHang]_vars /\ WF_vars(Next)

\* ------------------------------------------------------------------ claims
Finished == pc \in {"returned", "raised"}

\* the tracks whose task returned no file, at line 63, 78 or 97
NoFileTracks == {t \in TrackIds : task[t] \in {"ret63", "ret78", "ret97"}}

\* the tracks whose task returned a file
FileTracks == {t \in TrackIds : task[t] = "ret100"}

\* the complete (not partial) files of the playlist subdirectory
MediaFiles == {f \in DOMAIN disk : ~ disk[f].partial}

ArchiveNames == {zip.entries[i].arcname : i \in 1..Len(zip.entries)}

\* C1: once download_playlist is over for a resolved playlist of N tracks of
\* which K returned no file (and create_zip did not fail), it has returned a
\* path iff N-K >= 1, and the returned directory or archive holds exactly
\* N-K files.
C1_ResultCount ==
    (Finished /\ playlist_info = "ok" /\ exc # "ZipError") =>
        LET ok == N - Cardinality(NoFileTracks) IN
        /\ (pc = "returned" /\ retval # "None") <=> ok >= 1
        /\ retval = "playlist_dir" => Cardinality(MediaFiles) = ok
        /\ retval = "zip_filename" => Cardinality(ArchiveNames) = ok

\* C2: no exception of a track's probe or fetch leaves download_playlist; a
\* track whose probe or fetch failed returns no file; and when
\* download_playlist is over every track's task has completed and been
\* consumed, the downloaded files being exactly the files of the tracks that
\* returned one.
C2_FailureIsolation ==
    /\ exc # "TrackError"
    /\ \A t \in TrackIds : task[t] \in {"ret63", "ret78"} => result[t] = NoFile
    /\ (Finished /\ playlist_info = "ok") =>
        /\ \A t \in TrackIds : Done(t) /\ t \in Range(collected)
        /\ Range(downloaded_files) = {result[t] : t \in FileTracks}
        /\ Len(downloaded_files) = Cardinality(FileTracks)

\* a track's probe failed and the file of the other track, consumed after the
\* failure, is the only downloaded file
C2_Witness ==
    /\ pc = "returned"
    /\ retval = "playlist_dir"
    /\ \E t, u \in TrackIds :
        /\ task[t] = "ret63"
        /\ task[u] = "ret100"
        /\ collected = <<t, u>>
        /\ downloaded_files = <<result[u]>>

\* C3: the downloaded-file records are pairwise different paths (no two
\* tracks contribute the same file), and no record is the partial file that
\* a failed fetch left behind.
C3_OneFilePerTrack ==
    /\ \A i, j \in 1..Len(downloaded_files) :
        i # j => downloaded_files[i] # downloaded_files[j]
    /\ \A i \in 1..Len(downloaded_files) :
        downloaded_files[i] \in DOMAIN disk => ~ disk[downloaded_files[i]].partial

\* C4: when the playlist extraction fails, the exception leaves
\* download_playlist (no value is returned), and no task is submitted or
\* started and nothing is written.
C4_ExtractionFailurePropagates ==
    playlist_info = "error" =>
        /\ pc = "raised"
        /\ exc = "ExtractorError"
        /\ retval = "unset"
        /\ tracks = <<>>
        /\ task = <<>>
        /\ \A w \in Workers : worker[w] = 0
        /\ disk = EmptyDisk
        /\ ~ dir_exists

C4_Witness == playlist_info = "error" /\ pc = "raised" /\ raw_entries # <<>>

NonEmpty(v) == v # None /\ v # EmptyStr

\* the positions of the raw entries that are structured records with a
\* non-empty URL, title and id
KeptPositions ==
    {i \in 1..Len(raw_entries) :
        /\ raw_entries[i].is_dict
        /\ NonEmpty(raw_entries[i].webpage_url) \/ NonEmpty(raw_entries[i].url)
        /\ NonEmpty(raw_entries[i].title)
        /\ NonEmpty(raw_entries[i].id)}

\* the j-th kept position, in playlist order
KeptAt(j) == CHOOSE i \in KeptPositions : Cardinality({k \in KeptPositions : k <= i}) = j

C6_ArchiveRemovesOriginals ==
    (Finished /\ should_zip /\ downloaded_files # <<>> /\ zip.created) =>
        /\ pc = "returned"
        /\ retval = "zip_filename"
        /\ \A i \in 1..Len(downloaded_files) : downloaded_files[i] \notin DOMAIN disk
        /\ ~ dir_exists

\* C7: when an archive was asked for and no track produced a file,
\* download_playlist returns None: no archive is created and no exception
\* is raised; and an archive is only ever created from a non-empty list.
C7_NoFilesNoArchive ==
    /\ zip.created => downloaded_files # <<>>
    /\ (Finished /\ playlist_info = "ok" /\ should_zip /\ downloaded_files = <<>>) =>
        /\ pc = "returned"
        /\ retval = "None"
        /\ exc = "none"
        /\ ~ zip.created

\* an archive was asked for, and the only track's task returned no file
C7_Witness ==
    /\ pc = "returned"
    /\ should_zip
    /\ retval = "None"
    /\ N = 1
    /\ task[1] = "ret78"

\* C8: when no archive was asked for and files were collected,
\* download_playlist returns the playlist subdirectory, which still exists,
\* every collected file is still on disk, and no archive is created.
C8_NoZipKeepsFiles ==
    (Finished /\ playlist_info = "ok" /\ ~ should_zip /\ downloaded_files # <<>>) =>
        /\ pc = "returned"
        /\ retval = "playlist_dir"
        /\ dir_exists
        /\ \A i \in 1..Len(downloaded_files) : downloaded_files[i] \in DOMAIN disk
        /\ ~ zip.created

\* no archive was asked for and two different files were collected
C8_Witness ==
    /\ pc = "returned"
    /\ ~ should_zip
    /\ Len(downloaded_files) = 2
    /\ downloaded_files[1] # downloaded_files[2]
    /\ retval = "playlist_dir"

\* the throttle delay that followed the consumption of track u has elapsed
DelayElapsed(u) == \E i \in 1..sleeps : collected[i] = u

\* C9: a pool thread that has completed a task runs another one only when
\* the throttle delay for that completion has elapsed.
C9_ThrottleGatesSlots ==
    \A w \in Workers :
        (worker[w] # 0 /\ freed_by[w] # 0) => DelayElapsed(freed_by[w])

\* C10: the delays are taken one per consumed task and one after another
\* (the number of elapsed delays is the number of consumed tasks, less the
\* one in progress), whatever the task returned; no task is consumed twice;
\* and the call ends only after N delays have elapsed.
C10_OneDelayPerTask ==
    /\ Cardinality(Range(collected)) = Len(collected)
    /\ sleeps = IF pc = "sleep" THEN Len(collected) - 1 ELSE Len(collected)
    /\ (Finished /\ playlist_info = "ok") => sleeps = N

\* two tracks, one that returned no file and one that returned a file: two
\* delays before the return
C10_Witness ==
    /\ pc = "returned"
    /\ N = 2
    /\ sleeps = 2
    /\ NoFileTracks # {}
    /\ FileTracks # {}

\* C11: every track has exactly one task, all of them submitted once the
\* submission loop is over; the running tasks are exactly those held by the
\* pool threads, one per thread, so at most max_workers of them.
C11_PoolWidth ==
    /\ playlist_info = "ok" => DOMAIN task = 1..Len(tracks)
    /\ pc \notin {"start", "submit"} => \A t \in TrackIds : task[t] # "new"
    /\ Cardinality(Running) <= max_workers
    /\ Running = {worker[w] : w \in Workers} \ {0}
    /\ \A v, w \in Workers : (v # w /\ worker[v] # 0) => worker[v] # worker[w]

\* the pool is full: its only thread runs a task while another task waits
C11_Witness ==
    /\ max_workers = 1
    /\ Cardinality(Running) = 1
    /\ Queued # {}

\* the tracks whose probe has returned: their output path is known
Probed == {t \in TrackIds : clean_name[t] # NoFile}

\* C12: any two different tracks write to different output paths (their
\* sanitized proposed filenames under the playlist subdirectory differ).
C12_DistinctOutputPaths ==
    \A t, u \in Probed : t # u => clean_name[t] # clean_name[u]

\* the results of the consumed tasks, in the order of consumption
ConsumedResults == [i \in 1..Len(collected) |-> result[collected[i]]]

\* C13: no task is consumed twice, only completed tasks are consumed, and
\* the downloaded-file list is at every moment the non-empty results of the
\* consumed tasks, each once and in the order of consumption (so it changes
\* only when the orchestrator consumes a result); when download_playlist
\* is over every task has been consumed, also those that completed during
\* a throttle delay.
C13_ResultsConsumedOnce ==
    /\ \A i, j \in 1..Len(collected) : i # j => collected[i] # collected[j]
    /\ \A i \in 1..Len(collected) : Done(collected[i])
    /\ downloaded_files =
        SelectWhere(ConsumedResults,
                    {i \in 1..Len(collected) : ConsumedResults[i] # NoFile})
    /\ (Finished /\ playlist_info = "ok") => Range(collected) = TrackIds

\* the orchestrator sleeps after consuming one task while the file of the
\* other, already completed, waits to be consumed
C13_Witness ==
    /\ pc = "sleep"
    /\ Len(collected) = 1
    /\ \E t \in TrackIds :
        /\ t \notin Range(collected)
        /\ task[t] = "ret100"

\* C14: self.ydl_opts is never changed after construction, and every probe
\* names its file after its own track's title: it never sees the output
\* path another task has configured.
C14_SharedOptionsReadOnly ==
    /\ ydl_opts = InitialOpts
    /\ \A t \in Probed : clean_name[t] = clean_filename(tracks[t].title)

\* two tasks have configured different output paths, one after the other
C14_Witness ==
    \E t, u \in Probed :
        /\ clean_name[t] # clean_name[u]
        /\ task[t] = "fetch"
        /\ task[u] = "fetch"

\* the files of the playlist subdirectory that track t's fetch wrote
FilesBy(t) == {f \in DOMAIN disk : disk[f].by = t}

\* C15: a task is in or past its fetch only if its probe succeeded (its
\* output path is set); a task whose probe failed returns no file and has
\* written nothing; a task that has not finished its fetch has written
\* nothing; a task whose fetch failed returns no file (at line 78, before
\* the file resolution) and has left at most a partial file.
C15_PhaseOrder ==
    \A t \in TrackIds :
        /\ task[t] \in {"fetch", "resolve", "ret78", "ret97", "ret100"} => t \in Probed
        /\ task[t] \in {"new", "queued", "probe", "ret63"} => t \notin Probed
        /\ task[t] \in {"new", "queued", "probe", "ret63", "fetch"} => FilesBy(t) = {}
        /\ task[t] \in {"ret63", "ret78"} => result[t] = NoFile
        /\ task[t] = "ret78" => \A f \in FilesBy(t) : disk[f].partial
        /\ ~ Done(t) => result[t] = NoFile

\* one task's probe failed, the other's fetch failed leaving a partial file
C15_Witness ==
    \E t, u \in TrackIds :
        /\ task[t] = "ret63"
        /\ task[u] = "ret78"
        /\ FilesBy(u) # {}

\* the files of directory d whose name starts with the sanitized name p
NamedLike(d, p) == {f \in DOMAIN d : StartsWith(f, p)}

C17_UntrackedFilesKept ==
    [][\A f \in DOMAIN disk :
          f \notin Range(downloaded_files) => f \in DOMAIN disk']_vars

\* C18: when create_zip fails, the exception leaves download_playlist, every
\* downloaded file is still on disk and the playlist subdirectory still
\* exists; and a downloaded file is missing, or the subdirectory gone, only
\* once the archive has been created.
C18_CleanupOnlyAfterArchive ==
    /\ exc = "ZipError" =>
        /\ pc = "raised"
        /\ retval = "unset"
        /\ ~ zip.created
        /\ dir_exists
        /\ \A i \in 1..Len(downloaded_files) : downloaded_files[i] \in DOMAIN disk
    /\ (\E i \in 1..Len(downloaded_files) : downloaded_files[i] \notin DOMAIN disk)
            => zip.created
    /\ (playlist_info = "ok" /\ ~ dir_exists) => zip.created

\* create_zip failed on a list of two different files
C18_Witness ==
    /\ exc = "ZipError"
    /\ Len(downloaded_files) = 2
    /\ downloaded_files[1] # downloaded_files[2]

\* an extractor call that never returns
HungTracks == {t \in TrackIds : task[t] \in {"probe_hung", "fetch_hung"}}
SomeHung == pc = "info_hung" \/ HungTracks # {}

\* C19: if no extractor call hangs, download_playlist eventually ends, and it
\* ends only after every track's task has completed; once an extractor call
\* hangs, download_playlist never ends.
C19_Termination ==
    /\ <>(Finished \/ SomeHung)
    /\ [](Finished /\ playlist_info = "ok" => \A t \in TrackIds : Done(t))
    /\ [](SomeHung => ~ Finished)

\* one track's call hangs, every other track is completed and collected, and
\* the main thread waits in as_completed
C19_Witness ==
    /\ N = 2
    /\ Cardinality(HungTracks) = 1
    /\ Len(collected) = 1
    /\ pc = "wait"

====
